---------------------------- MODULE Spec2Model ----------------------------
(***************************************************************************)
(* Model of leveldb-viewer (src/main.go): the paginated, filtered key      *)
(* listing over an ordered key-value store, the scroll-driven page         *)
(* extension, and the whole-store export.                                  *)
(*                                                                         *)
(* Keys and filter texts are byte sequences (tuples of byte values), the   *)
(* store is the sequence of its keys in the order the store's iterator     *)
(* yields them.  Each handler of the program is one action.                *)
(***************************************************************************)
EXTENDS Integers, Sequences, FiniteSets, TLC

(***************************************************************************)
(* Bounds of the model.                                                    *)
(***************************************************************************)
MaxKeys == 3
MaxPageSize == 2

\* Byte strings used as keys and filter texts.
k_A == <<65>>
k_ab == <<97, 98>>
apple == <<97, 112, 112, 108, 101>>
Banana == <<66, 97, 110, 97, 110, 97>>
cherry == <<99, 104, 101, 114, 114, 121>>
f_empty == <<>>
f_a == <<97>>
f_B == <<66>>
f_an == <<97, 110>>

\* The keys a store of the model may hold, and the texts typed as filter.
KeyUniverse == {k_A, k_ab, apple, Banana, cherry}
FilterTexts == {f_empty, f_a, f_B, f_an}

VARIABLES
  pc,             \* "init" before main() has loaded the first page, then "run",
                  \* "stopped" after app.Stop()
  store,          \* the store's keys, in iterator order
  pageSize,       \* main.go:23
  currentPrefix,  \* main.go:26, the filter text
  displayedKeys,  \* main.go:25, the keys of the Page
  hasMoreKeys,    \* main.go:38, the more-available flag
  currentItem,    \* keyList's selected index (0-based)
  currentMode,    \* main.go:32, "keys" or "value"
  focus,          \* the focused widget: "keyList", "searchBox", "valueView"
  statusMessage,  \* main.go:29, the last message handed to setStatus
  last,           \* the store operation the last step ran: its name, return
                  \* value, the iterator's error at its end, the failed file
                  \* operation, the keys of the entries it wrote to a file
  currentKey,     \* main.go:36, the key whose value the value panel shows
  openIterators,  \* iterators got from db.NewIterator and not released
  render,         \* a value, the place that formats it and the text it gets
  now,            \* the clock, in seconds
  statusExpiration, \* main.go:30
  statusBar,      \* the text of the status line
  timers,         \* the goroutines started by setStatus (main.go:504-509)
  revertedBy      \* which goroutine wrote the status line last (0: none)

\* The browsing session, the value renderer's inputs and outputs, and the
\* status line with its timers.
sessionVars == <<pc, store, pageSize, currentPrefix, displayedKeys, hasMoreKeys,
                 currentItem, currentMode, focus, statusMessage, last,
                 currentKey, openIterators>>

renderVars == <<render>>

timerVars == <<now, statusExpiration, statusBar, timers, revertedBy>>

vars == <<pc, store, pageSize, currentPrefix, displayedKeys, hasMoreKeys,
          currentItem, currentMode, focus, statusMessage, last,
          currentKey, openIterators, render, now, statusExpiration, statusBar,
          timers, revertedBy>>

(***************************************************************************)
(* The store: goleveldb opened with nil options orders keys bytewise.      *)
(***************************************************************************)
MinLen(a, b) == IF Len(a) < Len(b) THEN Len(a) ELSE Len(b)

\* bytes.Compare(a, b) < 0
KeyLess(a, b) ==
  \E i \in 1..(MinLen(a, b) + 1) :
    /\ \A j \in 1..(i - 1) : a[j] = b[j]
    /\ \/ i > Len(a) /\ i <= Len(b)
       \/ i <= Len(a) /\ i <= Len(b) /\ a[i] < b[i]

RECURSIVE SortKeys(_)
SortKeys(S) ==
  IF S = {} THEN <<>>
  ELSE LET m == CHOOSE k \in S : \A o \in S \ {k} : KeyLess(k, o)
       IN <<m>> \o SortKeys(S \ {m})

Stores == {SortKeys(S) : S \in {T \in SUBSET KeyUniverse : Cardinality(T) <= MaxKeys}}

(***************************************************************************)
(* The store's iterator.  pos = 0 is before the first key, pos in          *)
(* 1..Len(store) is on a key, pos = Len(store)+1 is past the last key.     *)
(* failAt is the position the iterator cannot be moved onto (0: none): the *)
(* move sets the iterator's error, after which Next returns false and      *)
(* Valid is false.                                                         *)
(***************************************************************************)
NewIterator == [pos |-> 0, err |-> FALSE]

IterValid(it, st) == ~it.err /\ it.pos >= 1 /\ it.pos <= Len(st)

IterNext(it, st, failAt) ==
  IF it.err \/ it.pos > Len(st) THEN it
  ELSE IF it.pos + 1 = failAt THEN [pos |-> it.pos + 1, err |-> TRUE]
  ELSE [pos |-> it.pos + 1, err |-> FALSE]

SeekTargetPast(st, key) ==
  IF \E i \in 1..Len(st) : KeyLess(key, st[i])
  THEN CHOOSE i \in 1..Len(st) :
         /\ KeyLess(key, st[i])
         /\ \A j \in 1..(i - 1) : ~KeyLess(key, st[j])
  ELSE Len(st) + 1

\* The first position whose key is >= key, Len(st)+1 when there is none.
SeekTarget(st, key) ==
  IF \E i \in 1..Len(st) : ~KeyLess(st[i], key)
  THEN CHOOSE i \in 1..Len(st) :
         /\ ~KeyLess(st[i], key)
         /\ \A j \in 1..(i - 1) : KeyLess(st[j], key)
  ELSE Len(st) + 1

IterSeek(st, key, failAt) ==
  LET t == SeekTarget(st, key)
  IN [pos |-> t, err |-> (t = failAt)]

FailPoints(st) == 0..(Len(st) + 1)

\* defer iter.Release() (main.go:241, 303, 433): the release runs when the
\* function returns, whichever return statement ends it; exit names it.
ReleasedAtEndOnly(exit) == exit \in {"end", "scanned"}

Released(exit) == TRUE

\* The iterators an operation leaves open when it returns at exit, having
\* opened one.
OpenAfter(exit) == IF Released(exit) THEN 0 ELSE 1

(***************************************************************************)
(* UTF-8 as the Go library reads and writes it.                            *)
(***************************************************************************)
\* utf8.RuneError
RuneError == 65533

\* The bytes that continue a multi-byte encoding.
IsContinuation(b) == b >= 128 /\ b <= 191

\* The length the first byte of an encoding announces (0: no encoding
\* starts with it) and the range its second byte must lie in.
Utf8Length(b) ==
  IF b < 128 THEN 1
  ELSE IF b >= 194 /\ b <= 223 THEN 2
  ELSE IF b >= 224 /\ b <= 239 THEN 3
  ELSE IF b >= 240 /\ b <= 244 THEN 4
  ELSE 0

SecondByteLow(b) == IF b = 224 THEN 160 ELSE IF b = 240 THEN 144 ELSE 128

SecondByteHigh(b) == IF b = 237 THEN 159 ELSE IF b = 244 THEN 143 ELSE 191

\* utf8.DecodeRune(value[pos:]) (main.go:473, and the decoding inside
\* strings.ToLower of main.go:251), pos counted from 1: the rune
\* and the number of bytes of its encoding; RuneError with size 1 where no
\* valid encoding starts.
DecodeRune(value, pos) ==
  LET b == value[pos]
      n == Utf8Length(b)
      bad == [r |-> RuneError, size |-> 1]
  IN IF n = 1 THEN [r |-> b, size |-> 1]
     ELSE IF n = 0 \/ pos + n - 1 > Len(value) THEN bad
     ELSE IF value[pos + 1] < SecondByteLow(b) \/ value[pos + 1] > SecondByteHigh(b)
     THEN bad
     ELSE IF n = 2
     THEN [r |-> (b % 32) * 64 + (value[pos + 1] % 64), size |-> 2]
     ELSE IF ~IsContinuation(value[pos + 2]) THEN bad
     ELSE IF n = 3
     THEN [r |-> (b % 16) * 4096 + (value[pos + 1] % 64) * 64
                   + (value[pos + 2] % 64), size |-> 3]
     ELSE IF ~IsContinuation(value[pos + 3]) THEN bad
     ELSE [r |-> (b % 8) * 262144 + (value[pos + 1] % 64) * 4096
                   + (value[pos + 2] % 64) * 64 + (value[pos + 3] % 64),
           size |-> 4]

\* utf8.AppendRune: the encoding of rune r; a surrogate or a value past
\* U+10FFFF is written as U+FFFD.
EncodeRune(r) ==
  IF r < 128 THEN <<r>>
  ELSE IF r < 2048 THEN <<192 + (r \div 64), 128 + (r % 64)>>
  ELSE IF (r >= 55296 /\ r <= 57343) \/ r > 1114111 THEN <<239, 191, 189>>
  ELSE IF r < 65536
  THEN <<224 + (r \div 4096), 128 + ((r \div 64) % 64), 128 + (r % 64)>>
  ELSE <<240 + (r \div 262144), 128 + ((r \div 4096) % 64),
         128 + ((r \div 64) % 64), 128 + (r % 64)>>

(***************************************************************************)
(* Filter: strings.Contains(strings.ToLower(key), strings.ToLower(prefix)) *)
(***************************************************************************)
ToLowerByte(b) == IF b >= 65 /\ b <= 90 THEN b + 32 ELSE b

\* The upper-case runes past ASCII and their distance to the lower-case
\* rune (unicode.CaseRanges): <<first, last, distance, step>>, the runes
\* first, first + step, ..., last.
LowerRanges ==
  << <<192, 214, 32, 1>>, <<216, 222, 32, 1>>, <<256, 302, 1, 2>>,
     <<304, 304, -199, 1>>, <<306, 310, 1, 2>>, <<313, 327, 1, 2>>,
     <<330, 374, 1, 2>>, <<376, 376, -121, 1>>, <<377, 381, 1, 2>>,
     <<385, 385, 210, 1>>, <<386, 388, 1, 2>>, <<390, 390, 206, 1>>,
     <<391, 391, 1, 1>>, <<393, 394, 205, 1>>, <<395, 395, 1, 1>>,
     <<398, 398, 79, 1>>, <<399, 399, 202, 1>>, <<400, 400, 203, 1>>,
     <<401, 401, 1, 1>>, <<403, 403, 205, 1>>, <<404, 404, 207, 1>>,
     <<406, 406, 211, 1>>, <<407, 407, 209, 1>>, <<408, 408, 1, 1>>,
     <<412, 412, 211, 1>>, <<413, 413, 213, 1>>, <<415, 415, 214, 1>>,
     <<416, 420, 1, 2>>, <<422, 422, 218, 1>>, <<423, 423, 1, 1>>,
     <<425, 425, 218, 1>>, <<428, 428, 1, 1>>, <<430, 430, 218, 1>>,
     <<431, 431, 1, 1>>, <<433, 434, 217, 1>>, <<435, 437, 1, 2>>,
     <<439, 439, 219, 1>>, <<440, 440, 1, 1>>, <<444, 444, 1, 1>>,
     <<452, 452, 2, 1>>, <<453, 453, 1, 1>>, <<455, 455, 2, 1>>,
     <<456, 456, 1, 1>>, <<458, 458, 2, 1>>, <<459, 475, 1, 2>>,
     <<478, 494, 1, 2>>, <<497, 497, 2, 1>>, <<498, 500, 1, 2>>,
     <<502, 502, -97, 1>>, <<503, 503, -56, 1>>, <<504, 542, 1, 2>>,
     <<544, 544, -130, 1>>, <<546, 562, 1, 2>>, <<570, 570, 10795, 1>>,
     <<571, 571, 1, 1>>, <<573, 573, -163, 1>>, <<574, 574, 10792, 1>>,
     <<577, 577, 1, 1>>, <<579, 579, -195, 1>>, <<580, 580, 69, 1>>,
     <<581, 581, 71, 1>>, <<582, 590, 1, 2>>, <<880, 882, 1, 2>>,
     <<886, 886, 1, 1>>, <<895, 895, 116, 1>>, <<902, 902, 38, 1>>,
     <<904, 906, 37, 1>>, <<908, 908, 64, 1>>, <<910, 911, 63, 1>>,
     <<913, 929, 32, 1>>, <<931, 939, 32, 1>>, <<975, 975, 8, 1>>,
     <<984, 1006, 1, 2>>, <<1012, 1012, -60, 1>>, <<1015, 1015, 1, 1>>,
     <<1017, 1017, -7, 1>>, <<1018, 1018, 1, 1>>, <<1021, 1023, -130, 1>>,
     <<1024, 1039, 80, 1>>, <<1040, 1071, 32, 1>>, <<1120, 1152, 1, 2>>,
     <<1162, 1214, 1, 2>>, <<1216, 1216, 15, 1>>, <<1217, 1229, 1, 2>>,
     <<1232, 1326, 1, 2>>, <<1329, 1366, 48, 1>>, <<4256, 4293, 7264, 1>>,
     <<4295, 4295, 7264, 1>>, <<4301, 4301, 7264, 1>>,
     <<5024, 5103, 38864, 1>>, <<5104, 5109, 8, 1>>,
     <<7312, 7354, -3008, 1>>, <<7357, 7359, -3008, 1>>,
     <<7680, 7828, 1, 2>>, <<7838, 7838, -7615, 1>>, <<7840, 7934, 1, 2>>,
     <<7944, 7951, -8, 1>>, <<7960, 7965, -8, 1>>, <<7976, 7983, -8, 1>>,
     <<7992, 7999, -8, 1>>, <<8008, 8013, -8, 1>>, <<8025, 8025, -8, 1>>,
     <<8027, 8027, -8, 1>>, <<8029, 8029, -8, 1>>, <<8031, 8031, -8, 1>>,
     <<8040, 8047, -8, 1>>, <<8072, 8079, -8, 1>>, <<8088, 8095, -8, 1>>,
     <<8104, 8111, -8, 1>>, <<8120, 8121, -8, 1>>, <<8122, 8123, -74, 1>>,
     <<8124, 8124, -9, 1>>, <<8136, 8139, -86, 1>>, <<8140, 8140, -9, 1>>,
     <<8152, 8153, -8, 1>>, <<8154, 8155, -100, 1>>, <<8168, 8169, -8, 1>>,
     <<8170, 8171, -112, 1>>, <<8172, 8172, -7, 1>>,
     <<8184, 8185, -128, 1>>, <<8186, 8187, -126, 1>>,
     <<8188, 8188, -9, 1>>, <<8486, 8486, -7517, 1>>,
     <<8490, 8490, -8383, 1>>, <<8491, 8491, -8262, 1>>,
     <<8498, 8498, 28, 1>>, <<8544, 8559, 16, 1>>, <<8579, 8579, 1, 1>>,
     <<9398, 9423, 26, 1>>, <<11264, 11311, 48, 1>>,
     <<11360, 11360, 1, 1>>, <<11362, 11362, -10743, 1>>,
     <<11363, 11363, -3814, 1>>, <<11364, 11364, -10727, 1>>,
     <<11367, 11371, 1, 2>>, <<11373, 11373, -10780, 1>>,
     <<11374, 11374, -10749, 1>>, <<11375, 11375, -10783, 1>>,
     <<11376, 11376, -10782, 1>>, <<11378, 11378, 1, 1>>,
     <<11381, 11381, 1, 1>>, <<11390, 11391, -10815, 1>>,
     <<11392, 11490, 1, 2>>, <<11499, 11501, 1, 2>>,
     <<11506, 11506, 1, 1>>, <<42560, 42604, 1, 2>>,
     <<42624, 42650, 1, 2>>, <<42786, 42798, 1, 2>>,
     <<42802, 42862, 1, 2>>, <<42873, 42875, 1, 2>>,
     <<42877, 42877, -35332, 1>>, <<42878, 42886, 1, 2>>,
     <<42891, 42891, 1, 1>>, <<42893, 42893, -42280, 1>>,
     <<42896, 42898, 1, 2>>, <<42902, 42920, 1, 2>>,
     <<42922, 42922, -42308, 1>>, <<42923, 42923, -42319, 1>>,
     <<42924, 42924, -42315, 1>>, <<42925, 42925, -42305, 1>>,
     <<42926, 42926, -42308, 1>>, <<42928, 42928, -42258, 1>>,
     <<42929, 42929, -42282, 1>>, <<42930, 42930, -42261, 1>>,
     <<42931, 42931, 928, 1>>, <<42932, 42946, 1, 2>>,
     <<42948, 42948, -48, 1>>, <<42949, 42949, -42307, 1>>,
     <<42950, 42950, -35384, 1>>, <<42951, 42953, 1, 2>>,
     <<42960, 42960, 1, 1>>, <<42966, 42968, 1, 2>>,
     <<42997, 42997, 1, 1>>, <<65313, 65338, 32, 1>>,
     <<66560, 66599, 40, 1>>, <<66736, 66771, 40, 1>>,
     <<66928, 66938, 39, 1>>, <<66940, 66954, 39, 1>>,
     <<66956, 66962, 39, 1>>, <<66964, 66965, 39, 1>>,
     <<68736, 68786, 64, 1>>, <<71840, 71871, 32, 1>>,
     <<93760, 93791, 32, 1>>, <<125184, 125217, 34, 1>> >>

\* The distance from rune r to its lower-case rune, searched by halving
\* among the entries i..j of LowerRanges, which are in rune order; 0 when
\* no entry holds r.
RECURSIVE LowerDistance(_, _, _)
LowerDistance(r, i, j) ==
  IF i > j THEN 0
  ELSE LET m == (i + j) \div 2
           e == LowerRanges[m]
       IN IF r < e[1] THEN LowerDistance(r, i, m - 1)
          ELSE IF r > e[2] THEN LowerDistance(r, m + 1, j)
          ELSE IF (r - e[1]) % e[4] = 0 THEN e[3]
          ELSE 0

\* unicode.ToLower
UnicodeToLower(r) ==
  IF r < 128 THEN ToLowerByte(r)
  ELSE r + LowerDistance(r, 1, Len(LowerRanges))

\* strings.Map(unicode.ToLower, s) from byte pos on: each rune is decoded,
\* mapped and encoded again; a byte that starts no valid encoding comes out
\* as the encoding of U+FFFD.
RECURSIVE MapToLower(_, _)
MapToLower(s, pos) ==
  IF pos > Len(s) THEN <<>>
  ELSE LET d == DecodeRune(s, pos)
       IN EncodeRune(UnicodeToLower(d.r)) \o MapToLower(s, pos + d.size)

\* strings.ToLower: byte by byte when s is ASCII, rune by rune otherwise.
ToLower(s) ==
  IF \A i \in 1..Len(s) : s[i] < 128
  THEN [i \in 1..Len(s) |-> ToLowerByte(s[i])]
  ELSE MapToLower(s, 1)

Contains(s, sub) ==
  \E i \in 0..(Len(s) - Len(sub)) : SubSeq(s, i + 1, i + Len(sub)) = sub

MatchesSwapped(key, prefix) ==
  prefix = <<>> \/ Contains(ToLower(prefix), ToLower(key))

Matches(key, prefix) ==
  prefix = <<>> \/ Contains(ToLower(key), ToLower(prefix))

(***************************************************************************)
(* setStatus (main.go:499-503): the message replaces statusMessage.        *)
(***************************************************************************)
NoStatus == [kind |-> "none", n |-> 0]

Status(kind, n) == [kind |-> kind, n |-> n]

\* updateStatusBar (main.go:215-221): the key hints of the view mode
DefaultText(mode) ==
  [kind |-> IF mode = "value" THEN "valueHints" ELSE "keysHints", n |-> 0]

\* The setStatus calls whose goroutines the model keeps track of: in a run
\* of the status line alone, and in a run of the whole session.
MaxStatusCalls == 2
MaxSessionStatusCalls == 1

\* main.go:501, 505: 5 * time.Second
StatusSeconds == 5

\* main.go:504-509, the goroutine a setStatus call at time t starts: it
\* sleeps, then compares the clock with statusExpiration.
NewTimer(t) ==
  [pc |-> "sleep", start |-> t, exp |-> t + StatusSeconds, checked |-> 0]

(***************************************************************************)
(* loadInitialKeys (main.go:234-270)                                       *)
(***************************************************************************)
\* main.go:237 displayedKeys = [][]byte{}
KeptKeys(old) == old

ClearedKeys(old) == <<>>

\* main.go:257 len(displayedKeys) >= pageSize
InitialPageFullLate(keys, ps) == Len(keys) > ps

InitialPageFull(keys, ps) == Len(keys) >= ps

\* main.go:246-261, the collecting loop; it is the iterator before the
\* loop's next iter.Next().
RECURSIVE InitialScan(_, _, _, _, _, _)
InitialScan(it, keys, st, prefix, ps, failAt) ==
  LET nx == IterNext(it, st, failAt)
  IN IF ~IterValid(nx, st) THEN [it |-> nx, keys |-> keys]
     ELSE IF Matches(st[nx.pos], prefix)
          THEN LET ks == Append(keys, st[nx.pos])
               IN IF InitialPageFull(ks, ps) THEN [it |-> nx, keys |-> ks]
                  ELSE InitialScan(nx, ks, st, prefix, ps, failAt)
          ELSE InitialScan(nx, keys, st, prefix, ps, failAt)

\* The keys, the flag, the iterator's error and the iterators left open when
\* loadInitialKeys returns (main.go:270, its only exit).
loadInitialKeys(st, prefix, ps, old, failAt) ==
  LET sc == InitialScan(NewIterator, ClearedKeys(old), st, prefix, ps, failAt)
      probe == IterNext(sc.it, st, failAt)       \* main.go:264
  IN [keys |-> sc.keys, more |-> IterValid(probe, st), err |-> probe.err,
      open |-> OpenAfter("end")]

(***************************************************************************)
(* loadNextPage (main.go:295-329)                                          *)
(***************************************************************************)
\* main.go:296
LoadNextPageGuardBoth(more, keys) == ~more /\ Len(keys) = 0

LoadNextPageGuard(more, keys) == ~more \/ Len(keys) = 0

\* main.go:309, the iter.Next() that steps past the resume key
StayOnResumeKey(it, st, failAt) == it

AfterResumeKey(it, st, failAt) == IterNext(it, st, failAt)

\* main.go:313 count < pageSize
NextPageOpenOneMore(count, ps) == count <= ps

NextPageOpen(count, ps) == count < ps

\* main.go:326 return count > 0
LoadedSome(count) == count > 0

\* main.go:313-324, the collecting loop; it is the iterator the loop's
\* condition tests.
RECURSIVE NextPageScan(_, _, _, _, _, _, _)
NextPageScan(it, keys, count, st, prefix, ps, failAt) ==
  IF ~(IterValid(it, st) /\ NextPageOpen(count, ps))
  THEN [it |-> it, keys |-> keys, count |-> count]
  ELSE LET hit == Matches(st[it.pos], prefix)
       IN NextPageScan(IterNext(it, st, failAt),
                       IF hit THEN Append(keys, st[it.pos]) ELSE keys,
                       IF hit THEN count + 1 ELSE count,
                       st, prefix, ps, failAt)

\* The keys, the flag, the return value, the iterator's error and the
\* iterators left open when loadNextPage returns.
loadNextPage(st, prefix, ps, keys, more, failAt) ==
  IF LoadNextPageGuard(more, keys)
  THEN [keys |-> keys, more |-> more, ret |-> FALSE, err |-> FALSE,
        open |-> 0]                                        \* main.go:297
  ELSE LET sk == IterSeek(st, keys[Len(keys)], failAt)      \* main.go:308
       IN IF IterValid(sk, st)
          THEN LET sc == NextPageScan(AfterResumeKey(sk, st, failAt), keys, 0,
                                      st, prefix, ps, failAt)
               IN [keys |-> sc.keys, more |-> IterValid(sc.it, st),
                   ret |-> LoadedSome(sc.count), err |-> sc.it.err,
                   open |-> OpenAfter("scanned")]          \* main.go:326
          ELSE [keys |-> keys, more |-> more, ret |-> FALSE, err |-> sk.err,
                open |-> OpenAfter("seekFailed")]          \* main.go:328

(***************************************************************************)
(* dumpAllKeys (main.go:417-456)                                           *)
(***************************************************************************)
\* Whether the export loop writes the entry of key: every entry, the filter
\* plays no part (main.go:436-447).
DumpWritesMatching(key, prefix) == Matches(key, prefix)

DumpWrites(key, prefix) == TRUE

\* main.go:436-448; writeFailAt is the number of the write that fails (0: none).
RECURSIVE DumpScan(_, _, _, _, _, _, _)
DumpScan(it, file, count, st, prefix, failAt, writeFailAt) ==
  LET nx == IterNext(it, st, failAt)
  IN IF ~IterValid(nx, st) THEN [it |-> nx, file |-> file, count |-> count, io |-> "ok"]
     ELSE IF ~DumpWrites(st[nx.pos], prefix)
          THEN DumpScan(nx, file, count, st, prefix, failAt, writeFailAt)
          ELSE IF count + 1 = writeFailAt
               THEN [it |-> nx, file |-> file, count |-> count, io |-> "write"]
               ELSE DumpScan(nx, Append(file, st[nx.pos]), count + 1,
                             st, prefix, failAt, writeFailAt)

\* The entries written, the status, the iterator's error and the iterators
\* left open when dumpAllKeys returns.
\* io is "mkdir" or "create" when os.MkdirAll or os.Create fails.
dumpAllKeys(st, prefix, io, failAt, writeFailAt) ==
  IF io = "mkdir"
  THEN [file |-> <<>>, status |-> Status("mkdirError", 0), err |-> FALSE, io |-> io,
        open |-> 0]
  ELSE IF io = "create"
  THEN [file |-> <<>>, status |-> Status("createError", 0), err |-> FALSE, io |-> io,
        open |-> 0]
  ELSE LET sc == DumpScan(NewIterator, <<>>, 0, st, prefix, failAt, writeFailAt)
       IN [file |-> sc.file,
           status |-> IF sc.io = "write" THEN Status("writeKeyError", 0)
                      ELSE IF sc.it.err THEN Status("iteratorError", 0)
                      ELSE Status("dumpedAll", sc.count),
           err |-> sc.it.err, io |-> sc.io,
           open |-> OpenAfter(IF sc.io = "write" THEN "write"      \* main.go:444
                              ELSE IF sc.it.err THEN "iterError"   \* main.go:452
                              ELSE "end")]                         \* main.go:456

(***************************************************************************)
(* dumpCurrentKey (main.go:374-415)                                        *)
(***************************************************************************)
\* The export functions assign none of the session's variables; this is the
\* Page they leave (main.go:374-456).
PageClearedByExport(keys) == <<>>

PageAfterExport(keys) == keys

\* The key whose entry is written to leveldb_dump/<key>.txt, the status and
\* the failed step when dumpCurrentKey returns; io names the step that fails.
dumpCurrentKey(keys, item, io) ==
  IF item < 0 \/ item >= Len(keys)
  THEN [file |-> <<>>, status |-> Status("invalidSelection", 0), io |-> "selection"]
  ELSE IF io = "get"
  THEN [file |-> <<>>, status |-> Status("getError", 0), io |-> io]
  ELSE IF io = "mkdir"
  THEN [file |-> <<>>, status |-> Status("mkdirError", 0), io |-> io]
  ELSE IF io = "write"
  THEN [file |-> <<>>, status |-> Status("writeFileError", 0), io |-> io]
  ELSE [file |-> <<keys[item + 1]>>, status |-> Status("dumpedOne", 0), io |-> "ok"]

(***************************************************************************)
(* The value renderer (main.go:364-372, 458-496).  Values and texts are    *)
(* byte sequences.                                                         *)
(***************************************************************************)
\* unicode.IsControl of main.go:478: the C0 controls, DEL and the C1 controls
IsControl(r) == r < 32 \/ (r >= 127 /\ r <= 159)

\* base64.RawStdEncoding of main.go:466: the character of a 6-bit value, and
\* the encoding of a byte sequence, three bytes to four characters, without
\* padding.
Base64Char(v) ==
  IF v < 26 THEN 65 + v
  ELSE IF v < 52 THEN 97 + (v - 26)
  ELSE IF v < 62 THEN 48 + (v - 52)
  ELSE IF v = 62 THEN 43
  ELSE 47

RECURSIVE EncodeToString(_)
EncodeToString(buf) ==
  IF Len(buf) = 0 THEN <<>>
  ELSE IF Len(buf) = 1
  THEN <<Base64Char(buf[1] \div 4), Base64Char((buf[1] % 4) * 16)>>
  ELSE IF Len(buf) = 2
  THEN <<Base64Char(buf[1] \div 4),
         Base64Char((buf[1] % 4) * 16 + buf[2] \div 16),
         Base64Char((buf[2] % 16) * 4)>>
  ELSE <<Base64Char(buf[1] \div 4),
         Base64Char((buf[1] % 4) * 16 + buf[2] \div 16),
         Base64Char((buf[2] % 16) * 4 + buf[3] \div 64),
         Base64Char(buf[3] % 64)>>
       \o EncodeToString(SubSeq(buf, 4, Len(buf)))

\* "[b64:" and "]"
MarkerOpen == <<91, 98, 54, 52, 58>>

MarkerClose == <<93>>

\* main.go:463-470, flushBinary: the result after the pending binary run
\* has been written as a marker.
FlushBinaryAlways(result, binaryBuffer) ==
  result \o MarkerOpen \o EncodeToString(binaryBuffer) \o MarkerClose

FlushBinary(result, binaryBuffer) ==
  IF Len(binaryBuffer) > 0
  THEN result \o MarkerOpen \o EncodeToString(binaryBuffer) \o MarkerClose
  ELSE result

\* main.go:472-495, the loop from position pos (counted from 1) and the
\* flush after it.  result.WriteRune(r) writes the encoding of r, which is
\* the bytes the rune was decoded from.
RECURSIVE MixedScan(_, _, _, _)
MixedScan(value, pos, result, binaryBuffer) ==
  IF pos > Len(value) THEN FlushBinary(result, binaryBuffer)
  ELSE LET d == DecodeRune(value, pos)
       IN IF d.r = RuneError /\ d.size = 1
          THEN MixedScan(value, pos + 1, result, Append(binaryBuffer, value[pos]))
          ELSE IF IsControl(d.r)
          THEN MixedScan(value, pos + d.size, result,
                         binaryBuffer \o SubSeq(value, pos, pos + d.size - 1))
          ELSE MixedScan(value, pos + d.size,
                         FlushBinary(result, binaryBuffer)
                           \o SubSeq(value, pos, pos + d.size - 1),
                         <<>>)

mixedContentDisplay(value) == MixedScan(value, 1, <<>>, <<>>)

(***************************************************************************)
(* json.Valid and json.Indent (main.go:365, 367): the scanner of           *)
(* encoding/json, a state machine fed one byte at a time.  A scanner is    *)
(* its step function's name, the stack of open objects and arrays, whether *)
(* the top-level value has ended, and whether an error was met.            *)
(***************************************************************************)
NewScanner == [step |-> "BeginValue", parseState |-> <<>>, endTop |-> FALSE,
               err |-> FALSE]

isSpace(c) == c \in {32, 9, 13, 10}

IsDigit(c) == c >= 48 /\ c <= 57

IsHex(c) == IsDigit(c) \/ (c >= 97 /\ c <= 102) \/ (c >= 65 /\ c <= 70)

\* The scanner moved to step and reports v.
ScanTo(s, step, v) == [s |-> [s EXCEPT !.step = step], v |-> v]

ScanError(s) == [s |-> [s EXCEPT !.step = "Error", !.err = TRUE], v |-> "scanError"]

\* A value opens an object or an array.
PushParseState(s, p, step, v) ==
  [s |-> [s EXCEPT !.step = step, !.parseState = Append(@, p)], v |-> v]

PopParseState(s) ==
  LET n == Len(s.parseState) - 1
  IN IF n = 0
     THEN [s EXCEPT !.parseState = <<>>, !.step = "EndTop", !.endTop = TRUE]
     ELSE [s EXCEPT !.parseState = SubSeq(@, 1, n), !.step = "EndValue"]

stateEndTop(s, c) ==
  IF ~isSpace(c)
  THEN [s |-> [s EXCEPT !.step = "Error", !.err = TRUE], v |-> "scanEnd"]
  ELSE [s |-> s, v |-> "scanEnd"]

stateEndValue(s, c) ==
  LET n == Len(s.parseState)
  IN IF n = 0
     THEN stateEndTop([s EXCEPT !.step = "EndTop", !.endTop = TRUE], c)
     ELSE IF isSpace(c) THEN ScanTo(s, "EndValue", "scanSkipSpace")
     ELSE IF s.parseState[n] = "ObjectKey"
     THEN IF c = 58
          THEN [s |-> [s EXCEPT !.parseState[n] = "ObjectValue",
                                !.step = "BeginValue"], v |-> "scanObjectKey"]
          ELSE ScanError(s)
     ELSE IF s.parseState[n] = "ObjectValue"
     THEN IF c = 44
          THEN [s |-> [s EXCEPT !.parseState[n] = "ObjectKey",
                                !.step = "BeginString"], v |-> "scanObjectValue"]
          ELSE IF c = 125 THEN [s |-> PopParseState(s), v |-> "scanEndObject"]
          ELSE ScanError(s)
     ELSE IF c = 44 THEN ScanTo(s, "BeginValue", "scanArrayValue")
          ELSE IF c = 93 THEN [s |-> PopParseState(s), v |-> "scanEndArray"]
          ELSE ScanError(s)

stateBeginValue(s, c) ==
  IF isSpace(c) THEN [s |-> s, v |-> "scanSkipSpace"]
  ELSE IF c = 123
  THEN PushParseState(s, "ObjectKey", "BeginStringOrEmpty", "scanBeginObject")
  ELSE IF c = 91
  THEN PushParseState(s, "ArrayValue", "BeginValueOrEmpty", "scanBeginArray")
  ELSE IF c = 34 THEN ScanTo(s, "InString", "scanBeginLiteral")
  ELSE IF c = 45 THEN ScanTo(s, "Neg", "scanBeginLiteral")
  ELSE IF c = 48 THEN ScanTo(s, "0", "scanBeginLiteral")
  ELSE IF c = 116 THEN ScanTo(s, "T", "scanBeginLiteral")
  ELSE IF c = 102 THEN ScanTo(s, "F", "scanBeginLiteral")
  ELSE IF c = 110 THEN ScanTo(s, "N", "scanBeginLiteral")
  ELSE IF c >= 49 /\ c <= 57 THEN ScanTo(s, "1", "scanBeginLiteral")
  ELSE ScanError(s)

stateBeginValueOrEmpty(s, c) ==
  IF isSpace(c) THEN [s |-> s, v |-> "scanSkipSpace"]
  ELSE IF c = 93 THEN stateEndValue(s, c)
  ELSE stateBeginValue(s, c)

stateBeginString(s, c) ==
  IF isSpace(c) THEN [s |-> s, v |-> "scanSkipSpace"]
  ELSE IF c = 34 THEN ScanTo(s, "InString", "scanBeginLiteral")
  ELSE ScanError(s)

stateBeginStringOrEmpty(s, c) ==
  IF isSpace(c) THEN [s |-> s, v |-> "scanSkipSpace"]
  ELSE IF c = 125
  THEN stateEndValue([s EXCEPT !.parseState[Len(s.parseState)] = "ObjectValue"], c)
  ELSE stateBeginString(s, c)

stateInString(s, c) ==
  IF c = 34 THEN ScanTo(s, "EndValue", "scanContinue")
  ELSE IF c = 92 THEN ScanTo(s, "InStringEsc", "scanContinue")
  ELSE IF c < 32 THEN ScanError(s)
  ELSE [s |-> s, v |-> "scanContinue"]

stateInStringEsc(s, c) ==
  IF c \in {98, 102, 110, 114, 116, 92, 47, 34}
  THEN ScanTo(s, "InString", "scanContinue")
  ELSE IF c = 117 THEN ScanTo(s, "InStringEscU", "scanContinue")
  ELSE ScanError(s)

\* The four hexadecimal digits after \u
stateInStringEscU(s, c, next) ==
  IF IsHex(c) THEN ScanTo(s, next, "scanContinue") ELSE ScanError(s)

state0(s, c) ==
  IF c = 46 THEN ScanTo(s, "Dot", "scanContinue")
  ELSE IF c = 101 \/ c = 69 THEN ScanTo(s, "E", "scanContinue")
  ELSE stateEndValue(s, c)

state1(s, c) ==
  IF IsDigit(c) THEN ScanTo(s, "1", "scanContinue") ELSE state0(s, c)

stateNeg(s, c) ==
  IF c = 48 THEN ScanTo(s, "0", "scanContinue")
  ELSE IF c >= 49 /\ c <= 57 THEN ScanTo(s, "1", "scanContinue")
  ELSE ScanError(s)

stateDot(s, c) ==
  IF IsDigit(c) THEN ScanTo(s, "Dot0", "scanContinue") ELSE ScanError(s)

stateDot0(s, c) ==
  IF IsDigit(c) THEN [s |-> s, v |-> "scanContinue"]
  ELSE IF c = 101 \/ c = 69 THEN ScanTo(s, "E", "scanContinue")
  ELSE stateEndValue(s, c)

stateESign(s, c) ==
  IF IsDigit(c) THEN ScanTo(s, "E0", "scanContinue") ELSE ScanError(s)

stateE(s, c) ==
  IF c = 43 \/ c = 45 THEN ScanTo(s, "ESign", "scanContinue")
  ELSE stateESign(s, c)

stateE0(s, c) ==
  IF IsDigit(c) THEN [s |-> s, v |-> "scanContinue"] ELSE stateEndValue(s, c)

\* The letters of true, false and null after the first.
stateLiteral(s, c, want, next) ==
  IF c = want THEN ScanTo(s, next, "scanContinue") ELSE ScanError(s)

\* scan.step(scan, c): the scanner after byte c and what it reports
ScanStep(s, c) ==
  CASE s.step = "BeginValue" -> stateBeginValue(s, c)
    [] s.step = "BeginValueOrEmpty" -> stateBeginValueOrEmpty(s, c)
    [] s.step = "BeginString" -> stateBeginString(s, c)
    [] s.step = "BeginStringOrEmpty" -> stateBeginStringOrEmpty(s, c)
    [] s.step = "EndValue" -> stateEndValue(s, c)
    [] s.step = "EndTop" -> stateEndTop(s, c)
    [] s.step = "InString" -> stateInString(s, c)
    [] s.step = "InStringEsc" -> stateInStringEsc(s, c)
    [] s.step = "InStringEscU" -> stateInStringEscU(s, c, "InStringEscU1")
    [] s.step = "InStringEscU1" -> stateInStringEscU(s, c, "InStringEscU12")
    [] s.step = "InStringEscU12" -> stateInStringEscU(s, c, "InStringEscU123")
    [] s.step = "InStringEscU123" -> stateInStringEscU(s, c, "InString")
    [] s.step = "Neg" -> stateNeg(s, c)
    [] s.step = "0" -> state0(s, c)
    [] s.step = "1" -> state1(s, c)
    [] s.step = "Dot" -> stateDot(s, c)
    [] s.step = "Dot0" -> stateDot0(s, c)
    [] s.step = "E" -> stateE(s, c)
    [] s.step = "ESign" -> stateESign(s, c)
    [] s.step = "E0" -> stateE0(s, c)
    [] s.step = "T" -> stateLiteral(s, c, 114, "Tr")
    [] s.step = "Tr" -> stateLiteral(s, c, 117, "Tru")
    [] s.step = "Tru" -> stateLiteral(s, c, 101, "EndValue")
    [] s.step = "F" -> stateLiteral(s, c, 97, "Fa")
    [] s.step = "Fa" -> stateLiteral(s, c, 108, "Fal")
    [] s.step = "Fal" -> stateLiteral(s, c, 115, "Fals")
    [] s.step = "Fals" -> stateLiteral(s, c, 101, "EndValue")
    [] s.step = "N" -> stateLiteral(s, c, 117, "Nu")
    [] s.step = "Nu" -> stateLiteral(s, c, 108, "Nul")
    [] s.step = "Nul" -> stateLiteral(s, c, 108, "EndValue")
    [] OTHER -> [s |-> s, v |-> "scanError"]

\* scan.eof(): the input ended; TRUE when it ended inside a value or an
\* error was met.
ScanEofError(s) ==
  IF s.err THEN TRUE
  ELSE IF s.endTop THEN FALSE
  ELSE ~ScanStep(s, 32).s.endTop

\* The scanner after the bytes of data from position i on, stopping at the
\* first byte it reports an error for.
RECURSIVE CheckValid(_, _, _)
CheckValid(data, i, s) ==
  IF i > Len(data) THEN ~ScanEofError(s)
  ELSE LET r == ScanStep(s, data[i])
       IN IF r.v = "scanError" THEN FALSE ELSE CheckValid(data, i + 1, r.s)

\* json.Valid(value), main.go:365
JsonValid(data) == CheckValid(data, 1, NewScanner)

\* A line break and depth levels of the two-space indent (main.go:367).
RECURSIVE IndentSpaces(_)
IndentSpaces(depth) == IF depth <= 0 THEN <<>> ELSE <<32, 32>> \o IndentSpaces(depth - 1)

NewLine(depth) == <<10>> \o IndentSpaces(depth)

\* json.Indent(&prettyJSON, value, "", "  "), main.go:367: the bytes from
\* position i on; dst is the text written so far.
RECURSIVE IndentScan(_, _, _, _, _, _)
IndentScan(src, i, s, dst, needIndent, depth) ==
  IF i > Len(src) THEN [err |-> ScanEofError(s), text |-> dst]
  ELSE LET c == src[i]
           r == ScanStep(s, c)
           v == r.v
           opens == needIndent /\ v # "scanEndObject" /\ v # "scanEndArray"
           need == IF opens THEN FALSE ELSE needIndent
           dep == IF opens THEN depth + 1 ELSE depth
           out == IF opens THEN dst \o NewLine(dep) ELSE dst
       IN IF v = "scanSkipSpace" THEN IndentScan(src, i + 1, r.s, dst, needIndent, depth)
          ELSE IF v = "scanError" THEN [err |-> TRUE, text |-> dst]
          ELSE IF v = "scanContinue"
          THEN IndentScan(src, i + 1, r.s, Append(out, c), need, dep)
          ELSE IF c = 123 \/ c = 91
          THEN IndentScan(src, i + 1, r.s, Append(out, c), TRUE, dep)
          ELSE IF c = 44
          THEN IndentScan(src, i + 1, r.s, Append(out, c) \o NewLine(dep), need, dep)
          ELSE IF c = 58
          THEN IndentScan(src, i + 1, r.s, out \o <<c, 32>>, need, dep)
          ELSE IF c = 125 \/ c = 93
          THEN IF need
               THEN IndentScan(src, i + 1, r.s, Append(out, c), FALSE, dep)
               ELSE IndentScan(src, i + 1, r.s,
                               (out \o NewLine(dep - 1)) \o <<c>>, need, dep - 1)
          ELSE IndentScan(src, i + 1, r.s, Append(out, c), need, dep)

JsonIndent(src) == IndentScan(src, 1, NewScanner, <<>>, FALSE, 0)

\* main.go:364-372
formatValue(value) ==
  IF JsonValid(value) /\ ~JsonIndent(value).err
  THEN JsonIndent(value).text
  ELSE mixedContentDisplay(value)

(***************************************************************************)
(* The session                                                             *)
(***************************************************************************)
LastOp(op, ret, err, io, out) ==
  [op |-> op, ret |-> ret, err |-> err, io |-> io, out |-> out]

\* The step ran no store operation.
NoOp == LastOp("none", FALSE, FALSE, "ok", <<>>)

\* No value is being formatted; the status line shows the key hints and no
\* timer runs (main.go:80).
IdleRender == render = [value |-> <<>>, site |-> "none", text |-> <<>>]

IdleTimers ==
  /\ now = 0
  /\ statusExpiration = 0
  /\ statusBar = DefaultText("keys")
  /\ timers = <<>>
  /\ revertedBy = 0

Init ==
  /\ pc = "init"
  /\ store \in Stores
  /\ pageSize \in 1..MaxPageSize
  /\ currentPrefix = <<>>
  /\ displayedKeys = <<>>
  /\ hasMoreKeys = TRUE
  /\ currentItem = 0
  /\ currentMode = "keys"
  /\ focus = "keyList"
  /\ statusMessage = NoStatus
  /\ last = NoOp
  /\ currentKey = <<>>
  /\ openIterators = 0
  /\ IdleRender
  /\ IdleTimers

\* main.go:199-205, keyList's changed callback for the item at index
ChangedFunc(index, keys, key) ==
  IF index >= 0 /\ index < Len(keys) THEN keys[index + 1] ELSE key

\* The list calls the callback when its selection moves to another item.
SelectionMoved(old, new, keys, key) ==
  IF new # old THEN ChangedFunc(new, keys, key) ELSE key

\* The list calls the callback for the first item added to an empty list
\* (main.go:235, 254).
FirstItemAdded(keys, key) ==
  IF Len(keys) > 0 THEN ChangedFunc(0, keys, key) ELSE key

\* The keys of the keyboard: the keys the input capture names, one printable
\* key it does not name ("x"), and Ctrl-C.
Keys == {"Esc", "Enter", "Down", "Up", "d", "a", "h", "/", "q", "x", "Ctrl-C"}

\* main.go:139-185, what the application's input capture runs for a key;
\* "pass" is return event: the capture does nothing and hands the key back
\* to the event loop.  Ctrl-C is handed back in every focus and mode
\* (main.go:142, 152, 184): no branch names it.
InputCapture(foc, mode, key) ==
  IF foc = "searchBox" THEN "pass"
  ELSE IF mode = "value"
       THEN IF key = "Esc" THEN "leaveValue" ELSE "pass"
       ELSE CASE key = "d" -> "dumpCurrentKey"
              [] key = "a" -> "dumpAllKeys"
              [] key = "h" -> "help"
              [] key = "/" -> "focusSearch"
              [] key = "q" -> "stop"
              [] key = "Enter" -> "showSelectedKeyValue"
              [] key = "Down" -> "handleScroll"
              [] OTHER -> "pass"

\* The event loop of Application.Run (main.go:210) for one key: it runs the
\* input capture; a Ctrl-C the capture hands back stops the application,
\* any other key handed back goes to the focused widget.
KeyEvent(foc, mode, key) ==
  LET captured == InputCapture(foc, mode, key)
  IN IF captured = "pass" /\ key = "Ctrl-C" THEN "stop" ELSE captured

\* setStatus(message) (main.go:499-510) run by a handler: the message
\* replaces statusMessage and the text of the status line, the expiration
\* moves 5 seconds past the clock and a goroutine starts.
CallSetStatus(message) ==
  /\ statusMessage' = message
  /\ statusExpiration' = now + StatusSeconds
  /\ statusBar' = message
  /\ timers' = Append(timers, NewTimer(now))
  /\ revertedBy' = 0
  /\ UNCHANGED now

\* The bound of the session's runs: every call of setStatus starts a
\* goroutine that the state keeps, and a run is followed while the
\* goroutines it has started are fewer than MaxSessionStatusCalls.
WithinStatusBound == Len(timers) < MaxSessionStatusCalls

\* The handler returns without calling setStatus.
NoStatusCall == UNCHANGED <<statusMessage, now, statusExpiration, statusBar,
                            timers, revertedBy>>

\* updateStatusBar() run by a handler (main.go:149, 229): the status line
\* shows the key hints of mode, whatever message it showed.
CallUpdateStatusBar(mode) ==
  /\ statusBar' = DefaultText(mode)
  /\ revertedBy' = 0
  /\ UNCHANGED <<statusMessage, now, statusExpiration, timers>>

\* main.go:207, the first page loaded before the event loop starts
Main ==
  /\ pc = "init"
  /\ \E failAt \in FailPoints(store) :
       LET r == loadInitialKeys(store, currentPrefix, pageSize, displayedKeys, failAt)
       IN /\ displayedKeys' = r.keys
          /\ hasMoreKeys' = r.more
          /\ IF r.err THEN WithinStatusBound /\ CallSetStatus(Status("scanError", 0))
             ELSE NoStatusCall
          /\ last' = LastOp("loadInitialKeys", FALSE, r.err, "ok", <<>>)
          /\ currentKey' = FirstItemAdded(r.keys, currentKey)
          /\ openIterators' = openIterators + r.open
  /\ pc' = "run"
  /\ currentItem' = 0
  /\ UNCHANGED <<store, pageSize, currentPrefix, currentMode, focus>>
  /\ UNCHANGED renderVars

\* main.go:92-95, the search box's text changed to text
SearchChanged ==
  /\ pc = "run"
  /\ focus = "searchBox"
  /\ \E text \in FilterTexts, failAt \in FailPoints(store) :
       LET r == loadInitialKeys(store, text, pageSize, displayedKeys, failAt)
       IN /\ currentPrefix' = text
          /\ displayedKeys' = r.keys
          /\ hasMoreKeys' = r.more
          /\ IF r.err THEN WithinStatusBound /\ CallSetStatus(Status("scanError", 0))
             ELSE NoStatusCall
          /\ last' = LastOp("SearchChanged", FALSE, r.err, "ok", <<>>)
          /\ currentKey' = FirstItemAdded(r.keys, currentKey)
          /\ openIterators' = openIterators + r.open
  /\ currentItem' = 0
  /\ UNCHANGED <<pc, store, pageSize, currentMode, focus>>
  /\ UNCHANGED renderVars

\* main.go:169-171, '/' in list mode
FocusSearch ==
  /\ pc = "run"
  /\ InputCapture(focus, currentMode, "/") = "focusSearch"
  /\ focus' = "searchBox"
  /\ last' = NoOp
  /\ UNCHANGED <<pc, store, pageSize, currentPrefix, displayedKeys, hasMoreKeys,
                 currentItem, currentMode, statusMessage, currentKey,
                 openIterators>>
  /\ UNCHANGED <<renderVars, timerVars>>

\* main.go:97-108, Enter or Esc in the search box
SearchDone ==
  /\ pc = "run"
  /\ focus = "searchBox"
  /\ focus' = "keyList"
  /\ last' = NoOp
  /\ UNCHANGED <<pc, store, pageSize, currentPrefix, displayedKeys, hasMoreKeys,
                 currentItem, currentMode, statusMessage, currentKey,
                 openIterators>>
  /\ UNCHANGED <<renderVars, timerVars>>

\* The list's own handling of a key press: the selection moves by one and
\* stays inside the list (main.go:59, no wrap-around).
ListMove(item, count, by) ==
  IF count = 0 THEN 0
  ELSE IF item + by < 0 THEN 0
  ELSE IF item + by > count - 1 THEN count - 1
  ELSE item + by

\* main.go:180-181 and 332-345: KeyDown in list mode runs handleScroll, then
\* the list handles the key.
KeyDown ==
  /\ pc = "run"
  /\ InputCapture(focus, currentMode, "Down") = "handleScroll"
  /\ IF currentItem = Len(displayedKeys) - 1 /\ hasMoreKeys
     THEN \E failAt \in FailPoints(store) :
            LET r == loadNextPage(store, currentPrefix, pageSize, displayedKeys,
                                  hasMoreKeys, failAt)
                sel == IF r.ret THEN ListMove(currentItem, Len(r.keys), 1)
                       ELSE currentItem
                end == ListMove(sel, Len(r.keys), 1)
            IN /\ displayedKeys' = r.keys
               /\ hasMoreKeys' = r.more
               /\ IF r.ret THEN WithinStatusBound /\ CallSetStatus(Status("loaded", 0))
                  ELSE NoStatusCall
               /\ currentItem' = end
               /\ currentKey' = SelectionMoved(sel, end, r.keys,
                                   SelectionMoved(currentItem, sel, r.keys, currentKey))
               /\ last' = LastOp("handleScroll", r.ret, r.err, "ok", <<>>)
               /\ openIterators' = openIterators + r.open
     ELSE /\ currentItem' = ListMove(currentItem, Len(displayedKeys), 1)
          /\ currentKey' = SelectionMoved(currentItem, currentItem', displayedKeys,
                                          currentKey)
          /\ last' = NoOp
          /\ NoStatusCall
          /\ UNCHANGED <<displayedKeys, hasMoreKeys, openIterators>>
  /\ UNCHANGED <<pc, store, pageSize, currentPrefix, currentMode, focus>>
  /\ UNCHANGED renderVars

\* KeyUp in list mode: only the list handles it (main.go:176-184).
KeyUp ==
  /\ pc = "run"
  /\ KeyEvent(focus, currentMode, "Up") = "pass"
  /\ focus = "keyList"
  /\ currentItem' = ListMove(currentItem, Len(displayedKeys), -1)
  /\ currentKey' = SelectionMoved(currentItem, currentItem', displayedKeys, currentKey)
  /\ last' = NoOp
  /\ UNCHANGED <<pc, store, pageSize, currentPrefix, displayedKeys, hasMoreKeys,
                 currentMode, focus, statusMessage, openIterators>>
  /\ UNCHANGED <<renderVars, timerVars>>

\* main.go:177-179 and 223-231, Enter in list mode
ShowSelectedKeyValue ==
  /\ pc = "run"
  /\ InputCapture(focus, currentMode, "Enter") = "showSelectedKeyValue"
  /\ IF currentItem >= 0 /\ currentItem < Len(displayedKeys)
     THEN /\ currentKey' = displayedKeys[currentItem + 1]
          /\ currentMode' = "value"
          /\ focus' = "valueView"
          /\ CallUpdateStatusBar("value")
     ELSE /\ UNCHANGED <<currentKey, currentMode, focus>>
          /\ NoStatusCall
  /\ last' = NoOp
  /\ UNCHANGED <<pc, store, pageSize, currentPrefix, displayedKeys, hasMoreKeys,
                 currentItem, openIterators>>
  /\ UNCHANGED renderVars

\* main.go:145-151, Esc in value mode
LeaveValueView ==
  /\ pc = "run"
  /\ InputCapture(focus, currentMode, "Esc") = "leaveValue"
  /\ currentMode' = "keys"
  /\ focus' = "keyList"
  /\ CallUpdateStatusBar("keys")
  /\ last' = NoOp
  /\ UNCHANGED <<pc, store, pageSize, currentPrefix, displayedKeys, hasMoreKeys,
                 currentItem, currentKey, openIterators>>
  /\ UNCHANGED renderVars

\* main.go:152 and 188-196, a key in value mode that the event loop passes
\* to the value panel (neither Esc nor Ctrl-C): the panel scrolls its text.
ValueViewKey ==
  /\ pc = "run"
  /\ focus = "valueView"
  /\ {key \in Keys : KeyEvent(focus, currentMode, key) = "pass"} # {}
  /\ last' = NoOp
  /\ UNCHANGED <<pc, store, pageSize, currentPrefix, displayedKeys, hasMoreKeys,
                 currentItem, currentMode, focus, statusMessage, currentKey,
                 openIterators>>
  /\ UNCHANGED <<renderVars, timerVars>>

\* main.go:162-168, 'h' in list mode shows or hides the help window, which
\* is layout only.
ToggleHelp ==
  /\ pc = "run"
  /\ InputCapture(focus, currentMode, "h") = "help"
  /\ last' = NoOp
  /\ UNCHANGED <<pc, store, pageSize, currentPrefix, displayedKeys, hasMoreKeys,
                 currentItem, currentMode, focus, statusMessage, currentKey,
                 openIterators>>
  /\ UNCHANGED <<renderVars, timerVars>>

\* main.go:172-173, 'q' in list mode
Quit ==
  /\ pc = "run"
  /\ InputCapture(focus, currentMode, "q") = "stop"
  /\ pc' = "stopped"
  /\ last' = NoOp
  /\ UNCHANGED <<store, pageSize, currentPrefix, displayedKeys, hasMoreKeys,
                 currentItem, currentMode, focus, statusMessage,
                 currentKey, openIterators>>
  /\ UNCHANGED <<renderVars, timerVars>>

\* Ctrl-C in any focus and mode: the input capture hands the key back
\* (main.go:142, 152, 184) and the event loop of Application.Run
\* (main.go:210) stops the application.
Interrupt ==
  /\ pc = "run"
  /\ KeyEvent(focus, currentMode, "Ctrl-C") = "stop"
  /\ pc' = "stopped"
  /\ last' = NoOp
  /\ UNCHANGED <<store, pageSize, currentPrefix, displayedKeys, hasMoreKeys,
                 currentItem, currentMode, focus, statusMessage,
                 currentKey, openIterators>>
  /\ UNCHANGED <<renderVars, timerVars>>

\* loadNextPage (main.go:295-329) called as an operation of its own, where
\* the input capture reaches handleScroll (main.go:180-181)
LoadNextPage ==
  /\ pc = "run"
  /\ InputCapture(focus, currentMode, "Down") = "handleScroll"
  /\ \E failAt \in FailPoints(store) :
       LET r == loadNextPage(store, currentPrefix, pageSize, displayedKeys,
                             hasMoreKeys, failAt)
       IN /\ displayedKeys' = r.keys
          /\ hasMoreKeys' = r.more
          /\ last' = LastOp("loadNextPage", r.ret, r.err, "ok", <<>>)
          /\ openIterators' = openIterators + r.open
  /\ UNCHANGED <<pc, store, pageSize, currentPrefix, currentItem, currentMode,
                 focus, statusMessage, currentKey>>
  /\ UNCHANGED <<renderVars, timerVars>>

\* What can go wrong in one export: the directory or the file cannot be
\* created, the iterator fails at a position, or a write fails.
DumpInputs(st) ==
  {<<"ok", 0, 0>>, <<"mkdir", 0, 0>>, <<"create", 0, 0>>}
    \cup {<<"ok", f, 0>> : f \in FailPoints(st) \ {0}}
    \cup {<<"ok", 0, w>> : w \in 1..Len(st)}

\* main.go:159-161 and 417-456, 'a' in list mode
DumpAllKeys ==
  /\ pc = "run"
  /\ InputCapture(focus, currentMode, "a") = "dumpAllKeys"
  /\ \E in \in DumpInputs(store) :
       LET io == in[1]
           failAt == in[2]
           writeFailAt == in[3]
           r == dumpAllKeys(store, currentPrefix, io, failAt, writeFailAt)
       IN /\ WithinStatusBound
          /\ CallSetStatus(r.status)
          /\ last' = LastOp("dumpAllKeys", FALSE, r.err, r.io, r.file)
          /\ openIterators' = openIterators + r.open
  /\ displayedKeys' = PageAfterExport(displayedKeys)
  /\ UNCHANGED <<pc, store, pageSize, currentPrefix, hasMoreKeys,
                 currentItem, currentMode, focus, currentKey>>
  /\ UNCHANGED renderVars

\* main.go:156-158 and 374-415, 'd' in list mode; io is what fails in this
\* export: the lookup, the directory, the write, or nothing.
DumpCurrentKey ==
  /\ pc = "run"
  /\ InputCapture(focus, currentMode, "d") = "dumpCurrentKey"
  /\ \E io \in {"ok", "get", "mkdir", "write"} :
       LET r == dumpCurrentKey(displayedKeys, currentItem, io)
       IN /\ WithinStatusBound
          /\ CallSetStatus(r.status)
          /\ last' = LastOp("dumpCurrentKey", FALSE, FALSE, r.io, r.file)
  /\ displayedKeys' = PageAfterExport(displayedKeys)
  /\ UNCHANGED <<pc, store, pageSize, currentPrefix, hasMoreKeys,
                 currentItem, currentMode, focus, currentKey, openIterators>>
  /\ UNCHANGED renderVars

Next ==
  \/ Main
  \/ SearchChanged
  \/ FocusSearch
  \/ SearchDone
  \/ KeyDown
  \/ KeyUp
  \/ ShowSelectedKeyValue
  \/ LeaveValueView
  \/ ValueViewKey
  \/ ToggleHelp
  \/ Quit
  \/ Interrupt
  \/ LoadNextPage
  \/ DumpAllKeys
  \/ DumpCurrentKey

\* The handlers of the session.  The goroutines that setStatus starts stay
\* asleep here; SpecStatus below moves the clock and runs them.
Spec == Init /\ [][Next]_vars

(***************************************************************************)
(* The places that format a value.  Each run of SpecRender takes one value *)
(* and formats it at one of the three places.                              *)
(***************************************************************************)
MaxValueLen == 3

\* NUL, '"', '1', 'A', '[', ']', DEL, the continuation byte 0x85, the lead
\* byte 0xC2 (0xC2 0x85 encodes the control U+0085), and 0xFF.
RenderBytes == {0, 34, 49, 65, 91, 93, 127, 133, 194, 255}

RenderValues == UNION {[1..n -> RenderBytes] : n \in 0..MaxValueLen}

\* "(empty)"
EmptyMarker == <<40, 101, 109, 112, 116, 121, 41>>

\* main.go:355-361, the text showKeyValue puts after "Value: "
ShowKeyValueText(value) ==
  IF Len(value) = 0 THEN EmptyMarker ELSE formatValue(value)

\* main.go:406-407, the text dumpCurrentKey writes after "Value: "
DumpCurrentKeyText(value) == formatValue(value)

\* main.go:439-440, the text dumpAllKeys writes after "Value: "
DumpAllKeysText(value) == formatValue(value)

\* The session of an empty store before its first page is loaded.
IdleSession ==
  /\ pc = "init"
  /\ store = <<>>
  /\ pageSize = 1
  /\ currentPrefix = <<>>
  /\ displayedKeys = <<>>
  /\ hasMoreKeys = TRUE
  /\ currentItem = 0
  /\ currentMode = "keys"
  /\ focus = "keyList"
  /\ statusMessage = NoStatus
  /\ last = NoOp
  /\ currentKey = <<>>
  /\ openIterators = 0

RenderInit ==
  /\ IdleSession
  /\ IdleTimers
  /\ render \in {[value |-> v, site |-> "none", text |-> <<>>] : v \in RenderValues}

ShowKeyValue ==
  /\ render.site = "none"
  /\ render' = [render EXCEPT !.site = "showKeyValue",
                              !.text = ShowKeyValueText(render.value)]
  /\ UNCHANGED <<sessionVars, timerVars>>

DumpCurrentKeyContent ==
  /\ render.site = "none"
  /\ render' = [render EXCEPT !.site = "dumpCurrentKey",
                              !.text = DumpCurrentKeyText(render.value)]
  /\ UNCHANGED <<sessionVars, timerVars>>

DumpAllKeysContent ==
  /\ render.site = "none"
  /\ render' = [render EXCEPT !.site = "dumpAllKeys",
                              !.text = DumpAllKeysText(render.value)]
  /\ UNCHANGED <<sessionVars, timerVars>>

NextRender ==
  \/ ShowKeyValue
  \/ DumpCurrentKeyContent
  \/ DumpAllKeysContent

SpecRender == RenderInit /\ [][NextRender]_vars

(***************************************************************************)
(* The status line and its timers (main.go:498-510).  Each setStatus call  *)
(* starts a goroutine that sleeps, compares the clock with                 *)
(* statusExpiration and then restores the key hints.  SpecStatus runs the  *)
(* calls and the goroutines' steps in every order.                         *)
(***************************************************************************)
MaxTime == 7

\* main.go:505, time.Sleep has returned at time t for a goroutine started
\* at time start
SleepDone(start, t) == t >= start + StatusSeconds

\* main.go:506, time.Now().After(statusExpiration)
NotBefore(t, expiration) == t >= expiration

After(t, expiration) == t > expiration

\* main.go:506 reads statusExpiration without synchronisation while
\* setStatus writes it (main.go:501): goroutine i reads the value written by
\* the call that started it or by any later call.
ReadExpiration(i) == {timers[j].exp : j \in i..Len(timers)}

StatusInit ==
  /\ IdleSession
  /\ IdleRender
  /\ IdleTimers

\* main.go:499-510, setStatus called by a handler with a message
SetStatus ==
  /\ Len(timers) < MaxStatusCalls
  /\ \E kind \in {"loaded", "dumpedOne"} : CallSetStatus(Status(kind, 0))
  /\ UNCHANGED <<pc, store, pageSize, currentPrefix, displayedKeys, hasMoreKeys,
                 currentItem, currentMode, focus, last, currentKey,
                 openIterators>>
  /\ UNCHANGED renderVars

\* A second passes.
Tick ==
  /\ now < MaxTime
  /\ now' = now + 1
  /\ UNCHANGED <<sessionVars, renderVars, statusExpiration, statusBar, timers,
                 revertedBy>>

\* main.go:505-506, goroutine i wakes and compares
TimerCheck(i) ==
  /\ timers[i].pc = "sleep"
  /\ SleepDone(timers[i].start, now)
  /\ \E expiration \in ReadExpiration(i) :
       timers' = [timers EXCEPT ![i].pc = IF After(now, expiration)
                                          THEN "revert" ELSE "done",
                                ![i].checked = now]
  /\ UNCHANGED <<sessionVars, renderVars, now, statusExpiration, statusBar,
                 revertedBy>>

\* main.go:507, goroutine i calls updateStatusBar
TimerRevert(i) ==
  /\ timers[i].pc = "revert"
  /\ statusBar' = DefaultText(currentMode)
  /\ revertedBy' = i
  /\ timers' = [timers EXCEPT ![i].pc = "done"]
  /\ UNCHANGED <<sessionVars, renderVars, now, statusExpiration>>

TimerChecks == \E i \in 1..Len(timers) : TimerCheck(i)

TimerReverts == \E i \in 1..Len(timers) : TimerRevert(i)

NextStatus ==
  \/ SetStatus
  \/ Tick
  \/ TimerChecks
  \/ TimerReverts

SpecStatus == StatusInit /\ [][NextStatus]_vars

(***************************************************************************)
(* Extension called again and again.  SpecExtend keeps the steps that load *)
(* and extend the Page and asks for what the program's start and a user    *)
(* who keeps extending guarantee: main() loads the first page, the search  *)
(* box is left, and loadNextPage is called over and over.                  *)
(***************************************************************************)
NextExtend ==
  \/ Main
  \/ FocusSearch
  \/ SearchChanged
  \/ SearchDone
  \/ KeyDown
  \/ LoadNextPage

\* main.go:296: a call of loadNextPage passes the guard and scans.
ExtendWouldScan ==
  /\ pc = "run"
  /\ InputCapture(focus, currentMode, "Down") = "handleScroll"
  /\ ~LoadNextPageGuard(hasMoreKeys, displayedKeys)

\* The last conjunct is strong fairness of LoadNextPage, with the states
\* in which a call scans written out as ExtendWouldScan.
SpecExtend ==
  /\ Init
  /\ [][NextExtend]_vars
  /\ WF_vars(Main)
  /\ WF_vars(SearchDone)
  /\ (<>[](~ExtendWouldScan) \/ []<><<LoadNextPage>>_vars)

(***************************************************************************)
(* Properties.  The definitions below state the properties in their own    *)
(* terms: case-insensitive containment by folding both sides to upper      *)
(* case, and the store-ordered sequence of the keys matching a filter.     *)
(***************************************************************************)
FoldByte(b) == IF b >= 97 /\ b <= 122 THEN b - 32 ELSE b

ContainsFold(key, f) ==
  \E i \in 0..(Len(key) - Len(f)) :
    \A j \in 1..Len(f) : FoldByte(key[i + j]) = FoldByte(f[j])

MatchingKeys(st, f) == SelectSeq(st, LAMBDA k : ContainsFold(k, f))

FirstN(s, n) == SubSeq(s, 1, IF Len(s) < n THEN Len(s) ELSE n)

IndexIn(st, key) == CHOOSE i \in 1..Len(st) : st[i] = key

FirstPageOps == {"loadInitialKeys", "SearchChanged"}

ExtendOps == {"loadNextPage", "handleScroll"}

\* A store key matching the filter lies beyond the last key of the Page.
MatchBeyond ==
  \E i \in 1..Len(store) :
    /\ displayedKeys = <<>> \/ KeyLess(displayedKeys[Len(displayedKeys)], store[i])
    /\ ContainsFold(store[i], currentPrefix)

\* C1: every key of the Page contains the current filter text as a
\* case-insensitive substring, or the filter text is empty.
C1_PageMatchesFilter ==
  \A i \in 1..Len(displayedKeys) :
    currentPrefix = <<>> \/ ContainsFold(displayedKeys[i], currentPrefix)

\* An extended page under the upper-case filter "B" holding the key "ab".
C1_Witness ==
  /\ currentPrefix = f_B
  /\ last.op = "handleScroll"
  /\ last.ret
  /\ displayedKeys = <<Banana, k_ab>>

\* C2: the Page's key sequence is strictly increasing in store order, so it
\* holds no key twice.
C2_StrictlyIncreasing ==
  \A i, j \in 1..Len(displayedKeys) :
    i < j => KeyLess(displayedKeys[i], displayedKeys[j])

\* A Page of three keys built by a first page and extensions.
C2_Witness ==
  /\ last.op = "loadNextPage"
  /\ last.ret
  /\ Len(displayedKeys) = 3

\* C3: the Page is a prefix of the store-ordered sequence of the keys that
\* match the current filter: no matching key before the Page's last key is
\* missing from it.
C3_NeverSkips ==
  LET m == MatchingKeys(store, currentPrefix)
  IN /\ Len(displayedKeys) <= Len(m)
     /\ displayedKeys = SubSeq(m, 1, Len(displayedKeys))

\* The first scan stopped on "Banana" and probed the iterator onto "ab"; the
\* extension then appended "ab".
C3_Witness ==
  /\ store = <<k_A, Banana, k_ab>>
  /\ pageSize = 1
  /\ currentPrefix = f_B
  /\ last.op = "loadNextPage"
  /\ displayedKeys = <<Banana, k_ab>>
  /\ ~hasMoreKeys

\* C4 as claimed: the Page's key sequence never holds more than pageSize keys.
C4_Original == Len(displayedKeys) <= pageSize

\* C4 as amended: a first page holds at most pageSize keys, and every step
\* appends at most pageSize keys to the Page's key sequence.
C4_Amended ==
  [][/\ Len(displayedKeys') <= Len(displayedKeys) + pageSize
     /\ last'.op \in FirstPageOps => Len(displayedKeys') <= pageSize]_vars

\* An extension has grown a full first page by a full page.
C4_Witness ==
  /\ last.op \in ExtendOps
  /\ last.ret
  /\ Len(displayedKeys) = 2 * pageSize

\* C5 (stated for the scans that end without iterator error: a first page
\* load, or an extension that appended keys): the more-available flag is true
\* exactly when a store key beyond the Page's last key matches the filter.
C5_MoreIffMatchBeyond ==
  (/\ last.op \in FirstPageOps \/ (last.op \in ExtendOps /\ last.ret)
   /\ ~last.err)
    => (hasMoreKeys <=> MatchBeyond)

\* C6: loadNextPage called with the more-available flag false or with an
\* empty Page returns false and leaves the Page, the flag and the filter as
\* they were.
C6_ExtendNoOp ==
  [][(LoadNextPage /\ (~hasMoreKeys \/ Len(displayedKeys) = 0))
       => (/\ last'.ret = FALSE
           /\ UNCHANGED <<displayedKeys, hasMoreKeys, currentPrefix>>)]_vars

\* loadNextPage has been called on an empty Page.
C6_Witness ==
  /\ last.op = "loadNextPage"
  /\ displayedKeys = <<>>
  /\ ~hasMoreKeys
  /\ Len(store) > 0

\* What the first page and its flag are, from the store and the filter alone.
FirstPageOf(st, f, ps) == FirstN(MatchingKeys(st, f), ps)

FirstMoreOf(st, f, ps) ==
  LET m == MatchingKeys(st, f)
  IN Len(m) >= ps /\ IndexIn(st, m[ps]) < Len(st)

\* C7 as claimed: right after a filter change the Page is the first
\* min(pageSize, number of matches) matching keys and, with the flag, is
\* decided by the store and the filter alone.
C7_Original ==
  last.op = "SearchChanged"
    => /\ displayedKeys = FirstPageOf(store, currentPrefix, pageSize)
       /\ hasMoreKeys = FirstMoreOf(store, currentPrefix, pageSize)

\* The first page of the keys of st that lie before position p.
FirstPageBefore(st, f, ps, p) == FirstPageOf(SubSeq(st, 1, p - 1), f, ps)

\* C7, amended: right after a filter change whose scan ends without iterator
\* error the Page is the first min(pageSize, number of matches) matching
\* keys and, with the flag, is decided by the store and the filter alone;
\* right after one whose scan meets an iterator error the Page is the first
\* page of the keys that lie before the position where the iterator failed,
\* the flag is cleared and the error is the status message.
C7_Amended ==
  last.op = "SearchChanged" =>
    IF last.err
    THEN /\ \E p \in 1..(Len(store) + 1) :
              displayedKeys = FirstPageBefore(store, currentPrefix, pageSize, p)
         /\ ~hasMoreKeys
         /\ statusMessage.kind = "scanError"
    ELSE /\ displayedKeys = FirstPageOf(store, currentPrefix, pageSize)
         /\ hasMoreKeys = FirstMoreOf(store, currentPrefix, pageSize)

\* The filter changed and the iterator failed during the scan: the Page
\* holds one key where the page size is two, a matching key lies beyond it,
\* the flag is cleared and the error is reported.
C7_Witness ==
  /\ last.op = "SearchChanged"
  /\ last.err
  /\ currentPrefix # <<>>
  /\ pageSize = 2
  /\ Len(displayedKeys) = 1
  /\ MatchBeyond
  /\ ~hasMoreKeys
  /\ statusMessage.kind = "scanError"

\* C8: a scan that ends with an iterator error pending has reported it as a
\* status message.
C8_ErrorsSurfaced ==
  (last.op \in FirstPageOps \cup ExtendOps /\ last.err)
    => statusMessage.kind = "scanError"

\* Scenario A: the store of "apple", "Banana" and "cherry", page size 2, no
\* filter.
ScenarioStore == SortKeys({apple, Banana, cherry})

ScenarioA == store = ScenarioStore /\ pageSize = 2 /\ currentPrefix = <<>>

\* C9 as claimed: the first page of scenario A is ["apple", "Banana"].
C9_Original ==
  (ScenarioA /\ last.op \in FirstPageOps /\ ~last.err)
    => displayedKeys = <<apple, Banana>> /\ hasMoreKeys

\* C9 as amended: the first page of scenario A is ["Banana", "apple"] with
\* more available, and one extension makes it ["Banana", "apple", "cherry"]
\* with no more available.
C9_Amended ==
  [][/\ (ScenarioA' /\ last'.op \in FirstPageOps /\ ~last'.err)
          => displayedKeys' = <<Banana, apple>> /\ hasMoreKeys'
     /\ (ScenarioA /\ last.op \in FirstPageOps /\ ~last.err
           /\ LoadNextPage /\ ~last'.err)
          => /\ displayedKeys' = <<Banana, apple, cherry>>
             /\ ~hasMoreKeys'
             /\ last'.ret]_vars

\* Scenario A's store after its first page and one extension.
C9_Witness ==
  /\ ScenarioA
  /\ last.op = "loadNextPage"
  /\ last.ret
  /\ ~last.err
  /\ Len(displayedKeys) = 3

\* C10: an export that meets no iterator and no file error has written every
\* entry of the store once, in store order, and reports their number,
\* whatever the filter and the Page.
C10_DumpAllWritesStore ==
  (last.op = "dumpAllKeys" /\ ~last.err /\ last.io = "ok")
    => /\ last.out = store
       /\ statusMessage = Status("dumpedAll", Len(store))

\* A whole store exported while a filter hides part of it.
C10_Witness ==
  /\ last.op = "dumpAllKeys"
  /\ ~last.err
  /\ last.io = "ok"
  /\ Len(store) = 3
  /\ currentPrefix = f_an
  /\ Len(displayedKeys) = 1

(***************************************************************************)
(* The value renderer's properties, checked under SpecRender.              *)
(***************************************************************************)
\* The text holds no byte that starts no valid encoding and no control
\* character, from position pos on.
RECURSIVE NoRawBytes(_, _)
NoRawBytes(text, pos) ==
  \/ pos > Len(text)
  \/ LET d == DecodeRune(text, pos)
     IN /\ ~(d.r = RuneError /\ d.size = 1)
        /\ ~(d.r <= 31 \/ d.r \in 127..159)
        /\ NoRawBytes(text, pos + d.size)

\* The text was produced by formatValue.
Formatted ==
  /\ render.site # "none"
  /\ render.site = "showKeyValue" => render.value # <<>>

\* C11: the text formatValue produces holds no raw control character and
\* no undecodable byte, whichever path produced it.
C11_NoRawBytesReachDisplay == Formatted => NoRawBytes(render.text, 1)

IsPrintableAscii(value) == \A i \in 1..Len(value) : value[i] >= 32 /\ value[i] <= 126

\* The bytes of text that are not JSON white space.
StripSpace(text) == SelectSeq(text, LAMBDA c : c \notin {32, 9, 13, 10})

\* C12 as stated: a value of printable ASCII characters is returned
\* unchanged by formatValue.
C12_Original ==
  (Formatted /\ IsPrintableAscii(render.value)) => render.text = render.value

\* C12, amended: a value of printable ASCII characters that is not valid
\* JSON is returned unchanged by formatValue; one that is valid JSON is
\* returned with only its white space changed.
C12_Amended ==
  (Formatted /\ IsPrintableAscii(render.value)) =>
     IF JsonValid(render.value)
     THEN StripSpace(render.text) = StripSpace(render.value)
     ELSE render.text = render.value

\* A printable value that is not JSON was formatted, and one that is JSON
\* was formatted to a different text.
C12_Witness ==
  /\ Formatted
  /\ IsPrintableAscii(render.value)
  /\ Len(render.value) >= 2
  /\ ~JsonValid(render.value)
  /\ render.text = render.value

\* C13: wherever a value is formatted, the empty value gives "(empty)".
C13_EmptyMarkerEverywhere ==
  (render.site # "none" /\ render.value = <<>>) => render.text = EmptyMarker

(***************************************************************************)
(* The status timers' property, checked under SpecStatus.                  *)
(***************************************************************************)
\* C14: a goroutine restores the key hints only when its comparison passed
\* at a time later than the expiration its own setStatus call wrote, and
\* when the hints replace a message set less than 5 seconds earlier, the
\* goroutine that wrote them was started by an older setStatus call.
C14_OlderTimerClearsNewer ==
  /\ \A i \in 1..Len(timers) :
       (timers[i].pc = "revert" \/ revertedBy = i) => timers[i].checked > timers[i].exp
  /\ (revertedBy # 0 /\ now < statusExpiration) => revertedBy < Len(timers)

\* The goroutine of the first setStatus call restored the key hints while
\* the second call's message is less than 5 seconds old and its own
\* goroutine still sleeps.
C14_Witness ==
  /\ Len(timers) = 2
  /\ revertedBy = 1
  /\ statusBar = DefaultText(currentMode)
  /\ statusMessage # NoStatus
  /\ now < statusExpiration
  /\ timers[2].pc = "sleep"

(***************************************************************************)
(* Scans one at a time: what a single first-page load or extension         *)
(* collects and how it leaves the flag.                                    *)
(***************************************************************************)
\* The store holds a key after the last key of keys.
FurtherKey(st, keys) ==
  /\ keys # <<>>
  /\ \E i \in 1..Len(st) : KeyLess(keys[Len(keys)], st[i])

\* The store holds a key matching f after the last key of keys.
MatchBeyondOf(st, keys, f) ==
  \E i \in 1..Len(st) :
    /\ keys = <<>> \/ KeyLess(keys[Len(keys)], st[i])
    /\ ContainsFold(st[i], f)

\* This step loaded a first page; this step ran the scan of an extension,
\* which an extension does when the flag is set and the Page is not empty.
FirstPageStep == last'.op \in FirstPageOps

ExtendScanStep ==
  /\ last'.op \in ExtendOps
  /\ hasMoreKeys
  /\ displayedKeys # <<>>

\* The number of keys this step's scan appended.
Appended ==
  IF FirstPageStep THEN Len(displayedKeys')
  ELSE Len(displayedKeys') - Len(displayedKeys)

\* C15: after a scan that ends without iterator error the flag is set
\* exactly when the scan collected pageSize keys and the store holds a
\* further key after the last one collected; a first page for a filter
\* matching fewer than pageSize keys holds all matches and clears the flag.
C15_MoreIffFullAndFurtherKey ==
  [][((FirstPageStep \/ ExtendScanStep) /\ ~last'.err) =>
       /\ hasMoreKeys' <=> (Appended = pageSize /\ FurtherKey(store, displayedKeys'))
       /\ (FirstPageStep /\ Len(MatchingKeys(store, currentPrefix')) < pageSize) =>
            (~hasMoreKeys' /\ displayedKeys' = MatchingKeys(store, currentPrefix'))
    ]_vars

\* A scan without iterator error left the flag set although no key beyond
\* the Page matches the filter: the further key does not match.
C15_Witness ==
  /\ last.op \in FirstPageOps \cup ExtendOps
  /\ ~last.err
  /\ hasMoreKeys
  /\ FurtherKey(store, displayedKeys)
  /\ ~MatchBeyondOf(store, displayedKeys, currentPrefix)
  /\ currentPrefix # <<>>

\* C16 as stated: an extension returns true exactly when it appended a key,
\* and one that returns false leaves the flag cleared.
C16_Original ==
  [][last'.op \in ExtendOps =>
       /\ last'.ret <=> Len(displayedKeys') > Len(displayedKeys)
       /\ ~last'.ret => ~hasMoreKeys'
    ]_vars

\* C17 as stated: a scan appends at most pageSize keys, and exactly
\* pageSize keys whenever a matching key remains beyond the Page.
C17_Original ==
  [][/\ FirstPageStep =>
          /\ Appended <= pageSize
          /\ MatchBeyondOf(store, displayedKeys', currentPrefix') => Appended = pageSize
     /\ last'.op \in ExtendOps =>
          /\ Appended <= pageSize
          /\ MatchBeyondOf(store, displayedKeys', currentPrefix') => Appended = pageSize
    ]_vars

\* The position in the store after which this step's scan starts: the start
\* of the store for a first page, the last key of the Page for an
\* extension.
ScanStart ==
  IF FirstPageStep THEN 0
  ELSE IndexIn(store, displayedKeys[Len(displayedKeys)])

\* The keys this step's scan appended.
AppendedKeys ==
  IF FirstPageStep THEN displayedKeys'
  ELSE SubSeq(displayedKeys', Len(displayedKeys) + 1, Len(displayedKeys'))

\* The first ps keys matching f among the keys of st after position from
\* and before position p.
ScanBefore(st, f, ps, from, p) ==
  FirstN(MatchingKeys(SubSeq(st, from + 1, p - 1), f), ps)

\* C17, amended: a scan appends at most pageSize keys.  A scan that ends
\* without iterator error appends exactly pageSize keys whenever a matching
\* key remains beyond the Page.  A scan that meets an iterator error
\* appends the matching keys that lie before the position where the
\* iterator failed, up to pageSize of them, whatever lies beyond.  An
\* extension called with the flag cleared or the Page empty does not scan
\* and appends nothing.
C17_Amended ==
  [][(FirstPageStep \/ last'.op \in ExtendOps) =>
       /\ Appended <= pageSize
       /\ IF FirstPageStep \/ ExtendScanStep
          THEN IF last'.err
               THEN \E p \in ScanStart..(Len(store) + 1) :
                      AppendedKeys = ScanBefore(store, currentPrefix', pageSize,
                                                ScanStart, p)
               ELSE MatchBeyondOf(store, displayedKeys', currentPrefix')
                      => Appended = pageSize
          ELSE Appended = 0
    ]_vars

\* The first page was full with a matching key beyond it, and the extension
\* that followed met an iterator error and appended nothing: the Page still
\* holds pageSize keys and the matching key still lies beyond it.
C17_Witness ==
  /\ last.op \in ExtendOps
  /\ last.err
  /\ ~last.ret
  /\ pageSize = 2
  /\ Len(displayedKeys) = pageSize
  /\ MatchBeyondOf(store, displayedKeys, currentPrefix)

(***************************************************************************)
(* Iterators, exports and view modes.                                      *)
(***************************************************************************)
\* C18: no iterator is open between two steps: each operation has released
\* the iterator it opened when it returns, whichever way it returns.
C18_IteratorsReleased == openIterators = 0

\* An operation that opened an iterator returned early: the export after a
\* failed write.
C18_Witness ==
  /\ last.op = "dumpAllKeys"
  /\ last.io = "write"
  /\ openIterators = 0

\* C19: an export, whether it succeeds or aborts, leaves the filter, the
\* Page's keys, the more-available flag and the view mode as they were.
C19_ExportLeavesSession ==
  [][last'.op \in {"dumpAllKeys", "dumpCurrentKey"} =>
       UNCHANGED <<currentPrefix, displayedKeys, hasMoreKeys, currentMode>>
    ]_vars

\* An export of a non-empty Page was aborted by a failed write.
C19_Witness ==
  /\ last.op \in {"dumpAllKeys", "dumpCurrentKey"}
  /\ last.io = "write"
  /\ displayedKeys # <<>>
  /\ currentPrefix # <<>>

\* C20 as stated: value mode is entered only from list mode with the
\* selection inside the Page; in value mode a step either changes nothing
\* of the session or returns to list mode, so no key in value mode stops
\* the application; and the key shown in value mode is a key of the Page.
C20_ViewModeDiscipline ==
  /\ [][/\ (currentMode # "value" /\ currentMode' = "value") =>
             /\ currentMode = "keys"
             /\ currentItem >= 0 /\ currentItem < Len(displayedKeys)
             /\ currentKey' = displayedKeys[currentItem + 1]
        /\ currentMode = "value" =>
             \/ UNCHANGED <<pc, store, pageSize, currentPrefix, displayedKeys,
                            hasMoreKeys, currentItem, currentMode, focus,
                            statusMessage, currentKey, openIterators>>
             \/ /\ currentMode' = "keys"
                /\ focus' = "keyList"
                /\ UNCHANGED <<pc, store, pageSize, currentPrefix, displayedKeys,
                               hasMoreKeys, currentItem, statusMessage,
                               currentKey, openIterators>>
       ]_vars
  /\ [](currentMode = "value" =>
          \E i \in 1..Len(displayedKeys) : displayedKeys[i] = currentKey)

=============================================================================
